---- MODULE Spec2Model ----
(***************************************************************************)
(* Model of src/src/index.tsx: the frame decoder (htmlToFrame), the intent *)
(* encoder (parseIntents / parseIntent / Button / TextInput) and the       *)
(* context token that the frame route and the image route pass through     *)
(* URLs (getFrameContext, serializeJson, deserializeJson, toBaseUrl).      *)
(*                                                                         *)
(* Text is modelled as a sequence of symbols.  A symbol is either a single *)
(* punctuation character or a run of letters/digits that neither the       *)
(* percent codec nor the JSON grammar splits.  A meta-tag property is the  *)
(* sequence of its colon-separated segments.                               *)
(***************************************************************************)
EXTENDS Integers, Sequences, FiniteSets, TLC

(***************************************************************************)
(* Bounds of the model.                                                    *)
(***************************************************************************)
MaxTags == 4

MaxIntents == 4

MaxRequests == 3

MaxText == 2

(***************************************************************************)
(* Generic helpers.                                                        *)
(***************************************************************************)
Last(s) == s[Len(s)]

Suffix(s, n) == SubSeq(s, Len(s) - n + 1, Len(s))

SeqRange(s) == { s[i] : i \in 1..Len(s) }

\* A JavaScript Map, kept as the sequence of its entries in insertion order.
MapHas(m, k) == \E i \in 1..Len(m) : m[i].key = k

MapGet(m, k) == m[CHOOSE i \in 1..Len(m) : m[i].key = k].value

\* Map.prototype.set: an existing key keeps its position and takes the new value.
MapSet(m, k, v) ==
    IF MapHas(m, k)
    THEN [ i \in 1..Len(m) |-> IF m[i].key = k THEN [key |-> k, value |-> v] ELSE m[i] ]
    ELSE Append(m, [key |-> k, value |-> v])

(***************************************************************************)
(* Meta tags.  property = <<>> stands for a tag without a property         *)
(* attribute; content = <<>> for a tag without a content attribute, and    *)
(* content = <<c>> for content="c".                                        *)
(***************************************************************************)
Digits == << "0", "1", "2", "3", "4", "5", "6", "7", "8", "9" >>

\* `${index}` for the indices the model reaches (one decimal digit).
NumToStr(n) == Digits[n + 1]

\* parseInt(text, 10) on a one-digit text.
ParseInt(d) == (CHOOSE i \in 1..Len(Digits) : Digits[i] = d) - 1

MetaTag(p, c) == [property |-> p, content |-> c]

ButtonProperty(i) == << "fc", "frame", "button", NumToStr(i) >>

validPropertyNames ==
    { << "fc", "frame" >>,
      << "fc", "frame", "image" >>,
      << "fc", "frame", "input", "text" >>,
      << "fc", "frame", "post_url" >>,
      << "og", "image" >>,
      << "og", "title" >> }

\* The alternatives of the capture groups of buttonRegex.
ButtonDigits == { "1", "2", "3", "4" }

ButtonSuffixes == { "action", "target" }

\* property.match(buttonRegex): <<>> when the pattern does not match,
\* <<digit>> for a plain button property, <<digit, suffix>> for a suffixed
\* one.  The pattern is anchored at the end only.
buttonRegex(p) ==
    IF /\ Len(p) >= 4
       /\ SubSeq(Suffix(p, 4), 1, 3) = << "fc", "frame", "button" >>
       /\ Last(p) \in ButtonDigits
    THEN << Last(p) >>
    ELSE IF /\ Len(p) >= 5
            /\ SubSeq(Suffix(p, 5), 1, 3) = << "fc", "frame", "button" >>
            /\ p[Len(p) - 1] \in ButtonDigits
            /\ Last(p) \in ButtonSuffixes
         THEN << p[Len(p) - 1], Last(p) >>
         ELSE << >>

(***************************************************************************)
(* htmlToFrame: the locals of the scan, one loop iteration, and the        *)
(* assembly of the result.                                                 *)
(***************************************************************************)
ScanInit ==
    [ currentButtonIndex   |-> 0,
      buttonsAreMissing    |-> FALSE,
      buttonsAreOutOfOrder |-> FALSE,
      buttonMap            |-> << >>,
      buttonActionMap      |-> << >>,
      invalidButtons       |-> << >>,
      properties           |-> << >> ]

\* A mutant of PlainButton: the gap test (the else branch) is lost.
PlainButtonNoGap(st, index, content) ==
    LET ooo  == st.buttonsAreOutOfOrder \/ st.currentButtonIndex >= index
        cur  == IF st.currentButtonIndex + 1 = index THEN index ELSE st.currentButtonIndex
        miss == st.buttonsAreMissing
    IN  [ st EXCEPT
            !.buttonsAreOutOfOrder = ooo,
            !.currentButtonIndex   = cur,
            !.buttonsAreMissing    = miss,
            !.invalidButtons       = IF ooo \/ miss THEN Append(@, index) ELSE @,
            !.buttonMap            = MapSet(@, index, [index |-> index, title |-> content]) ]

\* A mutant of PlainButton: an index is reported only when this very tag
\* raised a flag.
PlainButtonJustSet(st, index, content) ==
    LET oooNow  == st.currentButtonIndex >= index
        missNow == st.currentButtonIndex + 1 # index
    IN  [ st EXCEPT
            !.buttonsAreOutOfOrder = @ \/ oooNow,
            !.currentButtonIndex   = IF missNow THEN @ ELSE index,
            !.buttonsAreMissing    = @ \/ missNow,
            !.invalidButtons       = IF oooNow \/ missNow THEN Append(@, index) ELSE @,
            !.buttonMap            = MapSet(@, index, [index |-> index, title |-> content]) ]

\* A mutant of PlainButton: the test that reports the index is made before
\* the flags are updated for this tag.
PlainButtonFlagsBefore(st, index, content) ==
    LET ooo  == st.buttonsAreOutOfOrder \/ st.currentButtonIndex >= index
        cur  == IF st.currentButtonIndex + 1 = index THEN index ELSE st.currentButtonIndex
        miss == st.buttonsAreMissing \/ st.currentButtonIndex + 1 # index
    IN  [ st EXCEPT
            !.buttonsAreOutOfOrder = ooo,
            !.currentButtonIndex   = cur,
            !.buttonsAreMissing    = miss,
            !.invalidButtons       = IF st.buttonsAreOutOfOrder \/ st.buttonsAreMissing
                                     THEN Append(@, index) ELSE @,
            !.buttonMap            = MapSet(@, index, [index |-> index, title |-> content]) ]

\* The else branch of `if (type)`: a plain button tag.
PlainButton(st, index, content) ==
    LET ooo  == st.buttonsAreOutOfOrder \/ st.currentButtonIndex >= index
        cur  == IF st.currentButtonIndex + 1 = index THEN index ELSE st.currentButtonIndex
        miss == st.buttonsAreMissing \/ st.currentButtonIndex + 1 # index
        \* content is never nullish here (it was defaulted to ''), so the
        \* title is the content.
        title == content
    IN  [ st EXCEPT
            !.buttonsAreOutOfOrder = ooo,
            !.currentButtonIndex   = cur,
            !.buttonsAreMissing    = miss,
            !.invalidButtons       = IF ooo \/ miss THEN Append(@, index) ELSE @,
            !.buttonMap            = MapSet(@, index, [index |-> index, title |-> title]) ]

\* One iteration of `for (const metaTag of metaTags)`.
ScanStep(st, metaTag) ==
    LET property == metaTag.property
        content  == IF metaTag.content = << >> THEN "" ELSE metaTag.content[1]
        m        == buttonRegex(property)
    IN  IF property = << >> THEN st
        ELSE IF property \in validPropertyNames
        THEN [ st EXCEPT !.properties = MapSet(@, property, content) ]
        ELSE IF m # << >>
        THEN LET index == ParseInt(m[1])
             IN  IF Len(m) = 2
                 THEN [ st EXCEPT !.buttonActionMap = MapSet(@, index, content) ]
                 ELSE PlainButton(st, index, content)
        ELSE st

\* properties[name] ?? ''
PropertyOr(st, name, default) ==
    IF MapHas(st.properties, name) THEN MapGet(st.properties, name) ELSE default

\* Array.prototype.toSorted((a, b) => a.index - b.index): a stable insertion
\* into an ascending sequence.
RECURSIVE InsertSorted(_, _)
InsertSorted(sorted, b) ==
    IF sorted = << >> THEN << b >>
    ELSE IF Last(sorted).index <= b.index THEN Append(sorted, b)
    ELSE Append(InsertSorted(SubSeq(sorted, 1, Len(sorted) - 1), b), Last(sorted))

RECURSIVE toSorted(_)
toSorted(bs) ==
    IF bs = << >> THEN << >>
    ELSE InsertSorted(toSorted(SubSeq(bs, 1, Len(bs) - 1)), Last(bs))

\* A mutant of Buttons: the final sort is lost.
ButtonsUnsorted(st) ==
    [ i \in 1..Len(st.buttonMap) |->
        [ index |-> st.buttonMap[i].value.index,
          title |-> st.buttonMap[i].value.title,
          type  |-> IF MapHas(st.buttonActionMap, st.buttonMap[i].key)
                    THEN MapGet(st.buttonActionMap, st.buttonMap[i].key)
                    ELSE "post" ] ]

\* The buttons of the result: the entries of buttonMap with their type, sorted.
Buttons(st) ==
    toSorted(
      [ i \in 1..Len(st.buttonMap) |->
          [ index |-> st.buttonMap[i].value.index,
            title |-> st.buttonMap[i].value.title,
            type  |-> IF MapHas(st.buttonActionMap, st.buttonMap[i].key)
                      THEN MapGet(st.buttonActionMap, st.buttonMap[i].key)
                      ELSE "post" ] ])

\* A mutant of FrameOf: fallbackImageToUrl tests whether the property was
\* seen, not whether its value is empty.
FrameOfFallbackOnAbsence(st) ==
    LET imageUrl == PropertyOr(st, << "fc", "frame", "image" >>, "")
    IN  [ buttons  |-> Buttons(st),
          imageUrl |-> imageUrl,
          postUrl  |-> PropertyOr(st, << "fc", "frame", "post_url" >>, ""),
          version  |-> PropertyOr(st, << "fc", "frame" >>, "vNext"),
          title    |-> PropertyOr(st, << "og", "title" >>, ""),
          debug    |-> [ buttonsAreOutOfOrder |-> st.buttonsAreMissing \/ st.buttonsAreOutOfOrder,
                         fallbackImageToUrl   |-> ~MapHas(st.properties, << "fc", "frame", "image" >>),
                         image                |-> PropertyOr(st, << "og", "image" >>, ""),
                         invalidButtons       |-> st.invalidButtons ] ]

\* The value htmlToFrame returns for the scan state st (the fields that the
\* scan of the document decides; htmlTags, postUrlTooLong, inputTextTooLong
\* and valid are not modelled).
FrameOf(st) ==
    LET imageUrl == PropertyOr(st, << "fc", "frame", "image" >>, "")
    IN  [ buttons  |-> Buttons(st),
          imageUrl |-> imageUrl,
          postUrl  |-> PropertyOr(st, << "fc", "frame", "post_url" >>, ""),
          version  |-> PropertyOr(st, << "fc", "frame" >>, "vNext"),
          title    |-> PropertyOr(st, << "og", "title" >>, ""),
          debug    |-> [ buttonsAreOutOfOrder |-> st.buttonsAreMissing \/ st.buttonsAreOutOfOrder,
                         fallbackImageToUrl   |-> imageUrl = "",
                         image                |-> PropertyOr(st, << "og", "image" >>, ""),
                         invalidButtons       |-> st.invalidButtons ] ]

RECURSIVE ScanAll(_, _)
ScanAll(st, tags) ==
    IF tags = << >> THEN st ELSE ScanAll(ScanStep(st, Head(tags)), Tail(tags))

\* htmlToFrame on a document given as the sequence of its meta elements.
htmlToFrame(tags) == FrameOf(ScanAll(ScanInit, tags))

(***************************************************************************)
(* The intent encoder.  A JSX value is a record with a tag field:          *)
(*   [tag |-> "#text", text]       a string child                          *)
(*   [tag |-> "#null"], "#false", "#undefined"     the falsy values        *)
(*   [tag |-> "#array", items]     a JavaScript array of JSX values        *)
(*   [tag |-> t, props, children]  a JSX node; t is a component (Button,   *)
(*                                 TextInput, Fragment: functions) or the  *)
(*                                 name of an HTML element (div, meta)     *)
(* props is a record holding the properties that were given.               *)
(***************************************************************************)
Text(t) == [tag |-> "#text", text |-> t]

Null == [tag |-> "#null"]

False == [tag |-> "#false"]

Undefined == [tag |-> "#undefined"]

Array(items) == [tag |-> "#array", items |-> items]

Node(t, props, children) == [tag |-> t, props |-> props, children |-> children]

NoProps == << >>

\* { ...p, ...q }
Spread(p, q) ==
    [ k \in DOMAIN p \cup DOMAIN q |-> IF k \in DOMAIN q THEN q[k] ELSE p[k] ]

\* !x
Falsy(x) == x.tag \in { "#null", "#false", "#undefined" }

\* typeof x
TypeOf(x) ==
    CASE x.tag = "#text"      -> "string"
      [] x.tag = "#false"     -> "boolean"
      [] x.tag = "#undefined" -> "undefined"
      [] OTHER                -> "object"

\* typeof node.tag === 'function'
TagIsFunction(t) == t \in { "Button", "TextInput", "Fragment", "#noop" }

\* (node.tag as any).__type
TagType(t) ==
    CASE t = "Button"    -> "button"
      [] t = "TextInput" -> "text-input"
      [] OTHER           -> "none"

\* An attribute value {children}: the array of string children, written as text.
AttrText(children) ==
    IF children = << >> THEN "" ELSE children[1].text

\* The Button component.
Button(props) ==
    LET index == IF "index" \in DOMAIN props THEN props.index ELSE 0
    IN  Node("meta",
             [ property |-> << "fc", "frame", "button", NumToStr(index) >>,
               content  |-> << AttrText(props.children) >> ],
             << >>)

\* The TextInput component.
TextInput(props) ==
    Node("meta",
         [ property |-> << "fc", "frame", "input", "text" >>,
           content  |-> IF "placeholder" \in DOMAIN props
                        THEN << props.placeholder >> ELSE << >> ],
         << >>)

\* hono's Fragment component: it renders the children it is given.
Fragment(props) ==
    Node("Fragment", NoProps,
         IF "children" \in DOMAIN props THEN props.children ELSE << >>)

\* node.tag(props)
CallTag(t, props) ==
    CASE t = "Button"    -> Button(props)
      [] t = "TextInput" -> TextInput(props)
      [] t = "Fragment"  -> Fragment(props)
      [] OTHER           -> Undefined

\* A mutant of parseIntent: counter.button is read but not incremented.
parseIntentNoIncrement(node_, counter) ==
    LET node == IF Falsy(node_) THEN [tag |-> "#noop", props |-> NoProps, children |-> << >>]
                ELSE node_
        props == IF TagType(node.tag) = "button"
                 THEN Spread(node.props, [children |-> node.children, index |-> counter.button])
                 ELSE IF TagType(node.tag) = "text-input"
                 THEN Spread(node.props, [children |-> node.children])
                 ELSE NoProps
    IN  [ node    |-> IF TagIsFunction(node.tag) THEN CallTag(node.tag, props) ELSE node,
          counter |-> counter ]

\* parseIntent(node_, counter): the rendered node and the counter after it.
parseIntent(node_, counter) ==
    LET node == IF Falsy(node_) THEN [tag |-> "#noop", props |-> NoProps, children |-> << >>]
                ELSE node_
        isButton == TagType(node.tag) = "button"
        props == IF isButton
                 THEN Spread(node.props, [children |-> node.children, index |-> counter.button])
                 ELSE IF TagType(node.tag) = "text-input"
                 THEN Spread(node.props, [children |-> node.children])
                 ELSE NoProps
    IN  [ node    |-> IF TagIsFunction(node.tag) THEN CallTag(node.tag, props) ELSE node,
          counter |-> IF isButton THEN [button |-> counter.button + 1] ELSE counter ]

\* nodes.map((e) => parseIntent(e, counter)): the mapped nodes and the counter.
RECURSIVE MapParseIntent(_, _)
MapParseIntent(nodes, counter) ==
    IF nodes = << >> THEN [nodes |-> << >>, counter |-> counter]
    ELSE LET before == MapParseIntent(SubSeq(nodes, 1, Len(nodes) - 1), counter)
             r      == parseIntent(Last(nodes), before.counter)
         IN  [nodes |-> Append(before.nodes, r.node), counter |-> r.counter]

\* parseIntents(intents_), for a truthy intents_.
parseIntents(intents) ==
    LET counter == [button |-> 1]
    IN  IF intents.tag = "#array"
        THEN Array(MapParseIntent(intents.items, counter).nodes)
        ELSE IF intents.children # << >> /\ TypeOf(intents.children[1]) = "object"
        THEN [ intents EXCEPT !.children = MapParseIntent(intents.children, counter).nodes ]
        ELSE parseIntent(intents, counter).node

\* {intents ? parseIntents(intents) : null} in the head of the page
IntentsOfHead(intents) == IF Falsy(intents) THEN Null ELSE parseIntents(intents)

\* The meta elements of the rendered head, in document order: the JSX
\* renderer writes a meta node as an element, calls a component that is still
\* unrendered with its own props and children, and descends into arrays and
\* into the children of other nodes.
RECURSIVE RenderMeta(_)
RenderMeta(x) ==
    LET RECURSIVE Each(_)
        Each(xs) == IF xs = << >> THEN << >> ELSE RenderMeta(Head(xs)) \o Each(Tail(xs))
    IN  CASE Falsy(x) \/ x.tag = "#text" -> << >>
          [] x.tag = "#array"  -> Each(x.items)
          [] x.tag = "meta"    -> << MetaTag(x.props.property, x.props.content) >>
          [] x.tag \in { "Button", "TextInput" } ->
                RenderMeta(CallTag(x.tag, Spread(x.props, [children |-> x.children])))
          [] OTHER             -> Each(x.children)

(***************************************************************************)
(* Text, the percent codec and JSON.                                       *)
(*                                                                         *)
(* A text is a sequence of symbols.  The punctuation symbols are single    *)
(* characters; every other symbol is a run of unreserved characters        *)
(* (letters, digits).  The symbols "25", "7B", ... are such runs and also  *)
(* the two hex digits of a percent escape when they follow "%".  The       *)
(* character "+" is not part of the alphabet.                              *)
(*                                                                         *)
(* A JavaScript value is a tagged tuple: <<"str", text>>, <<"num", run>>,  *)
(* <<"bool", b>>, <<"null">>, <<"undef">> (undefined) or <<"obj", members>>*)
(* with members the sequence of <<key, value>> in insertion order.         *)
(***************************************************************************)
JStr(t) == << "str", t >>

JNum(n) == << "num", n >>

JBool(b) == << "bool", b >>

JNull == << "null" >>

JUndef == << "undef" >>

JObj(members) == << "obj", members >>

EmptyObject == JObj(<< >>)

\* The concatenation of a sequence of texts.
RECURSIVE Concat(_)
Concat(texts) ==
    IF texts = << >> THEN << >>
    ELSE IF Len(texts) = 1 THEN texts[1]
    ELSE LET h == Len(texts) \div 2
         IN  Concat(SubSeq(texts, 1, h)) \o Concat(SubSeq(texts, h + 1, Len(texts)))

\* The percent escapes of the reserved characters of the alphabet.
PercentCode ==
    [ c \in { "{", "}", "\"", ":", ",", "/", "%", "\\", "?", "&", "=", " " } |->
        CASE c = "{"  -> "7B"
          [] c = "}"  -> "7D"
          [] c = "\"" -> "22"
          [] c = ":"  -> "3A"
          [] c = ","  -> "2C"
          [] c = "/"  -> "2F"
          [] c = "%"  -> "25"
          [] c = "\\" -> "5C"
          [] c = "?"  -> "3F"
          [] c = "&"  -> "26"
          [] c = "="  -> "3D"
          [] c = " "  -> "20" ]

HexPairs == { PercentCode[c] : c \in DOMAIN PercentCode }

CharOfHex(h) == CHOOSE c \in DOMAIN PercentCode : PercentCode[c] = h

\* encodeURIComponent: every reserved character becomes its escape.
encodeURIComponent(t) ==
    Concat([ i \in 1..Len(t) |->
               IF t[i] \in DOMAIN PercentCode THEN << "%", PercentCode[t[i]] >> ELSE << t[i] >> ])

\* decodeURIComponent: [threw |-> TRUE] on a malformed escape (URIError),
\* else [threw |-> FALSE, text |-> the decoded text].  A "%" always opens
\* an escape (the run after it is consumed by it, and no run is "%").
decodeURIComponent(t) ==
    IF \E i \in 1..Len(t) : t[i] = "%" /\ (i = Len(t) \/ t[i + 1] \notin HexPairs)
    THEN [threw |-> TRUE]
    ELSE [ threw |-> FALSE,
           text  |-> Concat([ i \in 1..Len(t) |->
                                IF t[i] = "%" THEN << CharOfHex(t[i + 1]) >>
                                ELSE IF i > 1 /\ t[i - 1] = "%" THEN << >>
                                ELSE << t[i] >> ]) ]

\* The escapes JSON.stringify writes inside a string.
Quote(t) ==
    Concat([ i \in 1..Len(t) |->
               IF t[i] \in { "\"", "\\" } THEN << "\\", t[i] >> ELSE << t[i] >> ])

\* JSON.stringify on a value other than undefined: a member whose value is
\* undefined is left out.
RECURSIVE stringify(_)
stringify(v) ==
    LET RECURSIVE Members(_, _)
        Members(ms, first) ==
            IF ms = << >> THEN << >>
            ELSE IF Head(ms)[2] = JUndef THEN Members(Tail(ms), first)
            ELSE (IF first THEN << >> ELSE << "," >>)
                 \o << "\"", Head(ms)[1], "\"", ":" >> \o stringify(Head(ms)[2])
                 \o Members(Tail(ms), FALSE)
    IN  CASE v[1] = "str"  -> << "\"" >> \o Quote(v[2]) \o << "\"" >>
          [] v[1] = "num"  -> << v[2] >>
          [] v[1] = "bool" -> IF v[2] THEN << "true" >> ELSE << "false" >>
          [] v[1] = "null" -> << "null" >>
          [] v[1] = "obj"  -> << "{" >> \o Members(v[2], TRUE) \o << "}" >>

NumberRuns == { "25", "7" }

KeyRuns == { "status", "trustedData", "untrustedData", "url", "messageBytes", "inputText",
             "k", "m" }

\* An object member set by JSON.parse: a repeated key keeps its place and
\* takes the later value.
SetMember(ms, k, v) ==
    IF \E i \in 1..Len(ms) : ms[i][1] = k
    THEN [ i \in 1..Len(ms) |-> IF ms[i][1] = k THEN << k, v >> ELSE ms[i] ]
    ELSE Append(ms, << k, v >>)

\* The JSON grammar, read from position i of text t:
\* [ok |-> FALSE] or [ok |-> TRUE, v |-> the value, i |-> the next position].
NoParse == [ok |-> FALSE]

RECURSIVE ParseChars(_, _, _)
ParseChars(t, i, acc) ==
    IF i > Len(t) THEN NoParse
    ELSE IF t[i] = "\"" THEN [ok |-> TRUE, v |-> JStr(acc), i |-> i + 1]
    ELSE IF t[i] = "\\"
    THEN IF i + 1 <= Len(t) /\ t[i + 1] \in { "\"", "\\", "/" }
         THEN ParseChars(t, i + 2, Append(acc, t[i + 1]))
         ELSE NoParse
    ELSE ParseChars(t, i + 1, Append(acc, t[i]))

RECURSIVE ParseValue(_, _)
ParseValue(t, i) ==
    LET RECURSIVE ParseMembers(_, _)
        \* at position j a member is expected
        ParseMembers(j, acc) ==
            IF ~(j + 3 <= Len(t) /\ t[j] = "\"" /\ t[j + 1] \in KeyRuns
                 /\ t[j + 2] = "\"" /\ t[j + 3] = ":")
            THEN NoParse
            ELSE LET r == ParseValue(t, j + 4)
                 IN  IF ~r.ok \/ r.i > Len(t) THEN NoParse
                     ELSE IF t[r.i] = "}"
                     THEN [ok |-> TRUE, v |-> JObj(SetMember(acc, t[j + 1], r.v)), i |-> r.i + 1]
                     ELSE IF t[r.i] = ","
                     THEN ParseMembers(r.i + 1, SetMember(acc, t[j + 1], r.v))
                     ELSE NoParse
    IN  IF i > Len(t) THEN NoParse
        ELSE CASE t[i] = "\""         -> ParseChars(t, i + 1, << >>)
               [] t[i] = "null"        -> [ok |-> TRUE, v |-> JNull, i |-> i + 1]
               [] t[i] = "true"        -> [ok |-> TRUE, v |-> JBool(TRUE), i |-> i + 1]
               [] t[i] = "false"       -> [ok |-> TRUE, v |-> JBool(FALSE), i |-> i + 1]
               [] t[i] \in NumberRuns  -> [ok |-> TRUE, v |-> JNum(t[i]), i |-> i + 1]
               [] t[i] = "{"           ->
                    IF i + 1 <= Len(t) /\ t[i + 1] = "}"
                    THEN [ok |-> TRUE, v |-> EmptyObject, i |-> i + 2]
                    ELSE ParseMembers(i + 1, << >>)
               [] OTHER                -> NoParse

\* JSON.parse: [threw |-> TRUE] on a SyntaxError, else the value.
JsonParse(t) ==
    LET r == ParseValue(t, 1)
    IN  IF r.ok /\ r.i = Len(t) + 1 THEN [threw |-> FALSE, value |-> r.v]
        ELSE [threw |-> TRUE]

(***************************************************************************)
(* serializeJson and deserializeJson.  An argument or a query value that   *)
(* may be undefined is <<>> when undefined and <<x>> when it is x.         *)
(***************************************************************************)
\* A mutant of serializeJson: the percent encoding is lost.
serializeJsonNoEncode(data) ==
    stringify(IF data = << >> THEN EmptyObject ELSE data[1])

\* serializeJson(data: unknown = {})
serializeJson(data) ==
    encodeURIComponent(stringify(IF data = << >> THEN EmptyObject ELSE data[1]))

\* deserializeJson(data = '{}'): [threw |-> TRUE] when decodeURIComponent or
\* JSON.parse throws, else [threw |-> FALSE, value |-> the parsed value].
deserializeJson(data) ==
    LET text    == IF data = << >> THEN << "{", "}" >> ELSE data[1]
        decoded == decodeURIComponent(text)
    IN  IF decoded.threw THEN [threw |-> TRUE] ELSE JsonParse(decoded.text)

(***************************************************************************)
(* URLs, the query of a request, and the two routes of Framework.frame.    *)
(***************************************************************************)
\* The first position of symbol c in text t, 0 when it does not occur.
IndexOf(t, c) ==
    IF \E i \in 1..Len(t) : t[i] = c
    THEN CHOOSE i \in 1..Len(t) : t[i] = c /\ \A j \in 1..(i - 1) : t[j] # c
    ELSE 0

\* String.prototype.split(sep)
RECURSIVE Split(_, _)
Split(t, sep) ==
    LET i == IndexOf(t, sep)
    IN  IF i = 0 THEN << t >>
        ELSE << SubSeq(t, 1, i - 1) >> \o Split(SubSeq(t, i + 1, Len(t)), sep)

\* toBaseUrl(path_)
toBaseUrl(path_) ==
    LET path == Split(path_, "?")[1]
    IN  IF path # << >> /\ Last(path) = "/" THEN SubSeq(path, 1, Len(path) - 1) ELSE path

\* c.req.query()[key]: <<>> when the URL has no such parameter, else <<v>>
\* with v the percent-decoded value; a value that cannot be decoded is
\* handed over as it is.
Query(url, key) ==
    LET q      == IndexOf(url, "?")
        params == IF q = 0 THEN << >> ELSE Split(SubSeq(url, q + 1, Len(url)), "&")
        hits   == { i \in 1..Len(params) :
                      /\ IndexOf(params[i], "=") # 0
                      /\ SubSeq(params[i], 1, IndexOf(params[i], "=") - 1) = << key >> }
    IN  IF hits = { } THEN << >>
        ELSE LET p   == params[CHOOSE i \in hits : \A j \in hits : i <= j]
                 raw == SubSeq(p, IndexOf(p, "=") + 1, Len(p))
                 d   == decodeURIComponent(raw)
             IN  << IF d.threw THEN raw ELSE d.text >>

\* `${value}` for a query value that may be undefined.
TemplateText(value) == IF value = << >> THEN << "undefined" >> ELSE value[1]

\* obj.key, undefined when the object has no such member.
Get(obj, key) ==
    IF \E i \in 1..Len(obj[2]) : obj[2][i][1] = key
    THEN obj[2][CHOOSE i \in 1..Len(obj[2]) : obj[2][i][1] = key][2]
    ELSE JUndef

\* A mutant of getFrameContext: the status does not follow the method.
getFrameContextAlwaysInitial(req) ==
    LET body == IF req.body = << >> THEN EmptyObject ELSE req.body[1]
    IN  JObj(<< << "status", JStr(<< "initial" >>) >>,
                << "trustedData", Get(body, "trustedData") >>,
                << "untrustedData", Get(body, "untrustedData") >>,
                << "url", JStr(toBaseUrl(req.url)) >> >>)

\* getFrameContext(ctx); req.body is <<>> when the request has no JSON body.
getFrameContext(req) ==
    LET body == IF req.body = << >> THEN EmptyObject ELSE req.body[1]
    IN  JObj(<< << "status", JStr(<< IF req.method = "POST" THEN "response" ELSE "initial" >>) >>,
                << "trustedData", Get(body, "trustedData") >>,
                << "untrustedData", Get(body, "untrustedData") >>,
                << "url", JStr(toBaseUrl(req.url)) >> >>)

\* The head the frame route renders once the handler has returned: the
\* image URL and the post URL, with what the handler was called with.
RenderedHead(context, previousContext, queryPrev, serializedContext, base) ==
    [ threw           |-> FALSE,
      context         |-> context,
      previousContext |-> previousContext,
      queryPrev       |-> queryPrev,
      imageUrl        |-> base \o << "/", "image", "?", "context", "=" >>
                          \o serializedContext
                          \o << "&", "previousContext", "=" >> \o TemplateText(queryPrev),
      postUrl         |-> base \o << "?", "previousContext", "=" >> \o serializedContext ]

\* A mutant of FrameHandler: the post URL carries the previousContext of the
\* request instead of the context of this render.
FrameHandlerStalePostUrl(context, queryPrev, previousContext) ==
    IF previousContext.threw THEN [threw |-> TRUE]
    ELSE RenderedHead(context, previousContext.value, queryPrev,
                      TemplateText(queryPrev),
                      toBaseUrl(Get(context, "url")[2]))

\* The body of the frame route from the call of the handler on, given the
\* context, the previousContext query value and what deserializeJson made
\* of it: the route throws before the handler when deserializeJson threw.
FrameHandler(context, queryPrev, previousContext) ==
    IF previousContext.threw THEN [threw |-> TRUE]
    ELSE RenderedHead(context, previousContext.value, queryPrev,
                      serializeJson(<< context >>),
                      toBaseUrl(Get(context, "url")[2]))

FrameQuery(req, queryPrev) ==
    FrameHandler(getFrameContext(req), queryPrev, deserializeJson(queryPrev))

\* The frame route (GET and POST): what the handler is called with and the
\* two URLs of the rendered head; [threw |-> TRUE] when the route throws
\* before the handler is called.
FrameRoute(req) == FrameQuery(req, Query(req.url, "previousContext"))

ImageHandler(parsedContext, parsedPreviousContext) ==
    IF parsedContext.threw \/ parsedPreviousContext.threw THEN [threw |-> TRUE]
    ELSE [ threw           |-> FALSE,
           context         |-> parsedContext.value,
           previousContext |-> parsedPreviousContext.value ]

\* The image route (GET): what the handler is called with.
ImageRoute(req) ==
    ImageHandler(deserializeJson(Query(req.url, "context")),
                 deserializeJson(Query(req.url, "previousContext")))

\* The URL the frame is registered under, and the URL of its image route.
FrameUrl == << "http", ":", "/", "/", "h", "/", "frame" >>

ImageUrl == toBaseUrl(FrameUrl) \o << "/", "image" >>

\* The route a request is dispatched to.
RouteOf(req) ==
    IF toBaseUrl(req.url) = FrameUrl THEN "frame"
    ELSE IF toBaseUrl(req.url) = ImageUrl /\ req.method = "GET" THEN "image"
    ELSE "none"

(***************************************************************************)
(* The requests of a client.                                               *)
(***************************************************************************)
Request(method, url, body) == [method |-> method, url |-> url, body |-> body]

\* The symbols of a text a user or a caller supplies.
TextAlphabet == { "w", "%", "25", "\"", "\\" }

Texts(n) == UNION { [1..k -> TextAlphabet] : k \in 0..n }

\* The texts a user types into the input field.
InputTexts == { << "w" >>, << "%" >>, << "%", "25" >>, << "\"" >>, << "w", "\\" >> }

\* The JSON bodies of a button press.
Bodies ==
    { << >> }
    \cup { << JObj(<< << "untrustedData", JObj(<< << "inputText", JStr(t) >> >>) >>,
                     << "trustedData", td >> >>) >> :
             t \in InputTexts,
             td \in { JUndef, JObj(<< << "messageBytes", JStr(<< "w" >>) >> >>) } }

\* Query values that are not a token written by a render.
ForeignTokens == { << "undefined" >>, << "%" >>, << "w" >>, << "%", "7B", "%", "7D" >> }

\* The objects whose serialization is checked: members under the keys k and
\* url, with strings of at most MaxText symbols, numbers, booleans, null and
\* nested objects as values.
JsonValues ==
    { JStr(t) : t \in Texts(MaxText) }
    \cup { JNull, JBool(TRUE), JNum("25"), EmptyObject }
    \cup { JObj(<< << "m", JStr(t) >> >>) : t \in Texts(1) }

JsonObjects ==
    { EmptyObject }
    \cup { JObj(<< << k, v >> >>) : k \in { "k", "url" }, v \in JsonValues }
    \cup { JObj(<< << ks[1], v >>, << ks[2], w >> >>) :
             ks \in { << "k", "url" >>, << "url", "k" >> }, v \in JsonValues, w \in JsonValues }

(***************************************************************************)
(* The documents the decoder is run on: every sequence of at most MaxTags  *)
(* of these meta tags.                                                     *)
(***************************************************************************)
DocTags ==
    { MetaTag(ButtonProperty(i), << "A" >>) : i \in 1..4 }
    \cup { MetaTag(ButtonProperty(1), << "B" >>),
           MetaTag(ButtonProperty(2), << >>),
           MetaTag(ButtonProperty(1) \o << "action" >>, << "link" >>),
           MetaTag(ButtonProperty(2) \o << "target" >>, << "https://a" >>),
           MetaTag(ButtonProperty(5), << "A" >>),
           MetaTag(<< "fc", "frame", "image" >>, << "img" >>),
           MetaTag(<< "fc", "frame", "image" >>, << "" >>),
           MetaTag(<< "og", "image" >>, << "img" >>),
           MetaTag(<< >>, << "A" >>) }

(***************************************************************************)
(* The intents a frame handler returns: arrays of at most MaxIntents       *)
(* values, a fragment of at most MaxIntents children, a single node, or a  *)
(* falsy value.                                                            *)
(***************************************************************************)
IntentPool ==
    { Node("Button", NoProps, << Text("A") >>),
      Node("Button", [index |-> 3, value |-> "v"], << Text("B") >>),
      Node("TextInput", [placeholder |-> "P"], << >>),
      Null,
      False,
      Node("div", NoProps, << Node("Button", NoProps, << Text("A") >>) >>),
      Node("Fragment", NoProps, << Node("Button", NoProps, << Text("A") >>) >>) }

IntentSeqs == UNION { [1..n -> IntentPool] : n \in 0..MaxIntents }

IntentInputs ==
    { Array(items) : items \in IntentSeqs }
    \cup { Node("Fragment", NoProps, items) : items \in IntentSeqs \ { << >> } }
    \cup { Node("Button", NoProps, << Text("A") >>),
           Node("TextInput", NoProps, << >>),
           Undefined }

\* The head of the page the frame route renders; the two URLs are kept
\* abstract here (the context part of the model spells them out).
PageHead(intents) ==
    << MetaTag(<< "fc", "frame" >>, << "vNext" >>),
       MetaTag(<< "fc", "frame", "image" >>, << "image-url" >>),
       MetaTag(<< "og", "image" >>, << "image-url" >>),
       MetaTag(<< "fc", "frame", "post_url" >>, << "post-url" >>) >>
    \o RenderMeta(IntentsOfHead(intents))

VARIABLES
    html,     \* decoder: the meta tags scanned so far, in document order
    scan,     \* decoder: the locals of htmlToFrame
    frame,    \* decoder: the value htmlToFrame returned
    pc,       \* decoder: "scan" while in the loop, "done" after the return
    intents,  \* encoder: the intents the frame handler returned
    page,     \* encoder: the meta elements of the page the frame route rendered
    preview,  \* encoder: the frame the preview route decoded from the page
    encPc,    \* encoder: "start", "rendered", "previewed"
    shown,    \* server: the last page the frame route rendered, as the client holds it
    lastReq,  \* server: the last request and what its route did
    nreq,     \* server: the number of requests so far
    jx,       \* codec: the object given to serializeJson
    jtoken,   \* codec: the token serializeJson returned
    jback,    \* codec: what deserializeJson returned
    jpc       \* codec: "start", "serialized", "deserialized", "default"

decVars == << html, scan, frame, pc >>

encVars == << intents, page, preview, encPc >>

srvVars == << shown, lastReq, nreq >>

codecVars == << jx, jtoken, jback, jpc >>

vars == << decVars, encVars, srvVars, codecVars >>

NoFrame == FrameOf(ScanInit)

DecIdle == html = << >> /\ scan = ScanInit /\ frame = NoFrame /\ pc = "idle"

EncIdle == intents = Undefined /\ page = << >> /\ preview = NoFrame /\ encPc = "idle"

NoPage == [present |-> FALSE]

NoRequest == [route |-> "none", via |-> "none", threw |-> FALSE]

SrvIdle == shown = NoPage /\ lastReq = NoRequest /\ nreq = 0

NoResult == [threw |-> FALSE, value |-> JUndef]

CodecIdle == jx = EmptyObject /\ jtoken = << >> /\ jback = NoResult /\ jpc = "idle"

(***************************************************************************)
(* Spec: htmlToFrame run on every document of at most MaxTags meta tags.   *)
(***************************************************************************)
Init ==
    /\ html = << >>
    /\ scan = ScanInit
    /\ frame = NoFrame
    /\ pc = "scan"
    /\ EncIdle
    /\ SrvIdle
    /\ CodecIdle

\* The loop takes the next meta element of the document.
ScanTag ==
    /\ pc = "scan"
    /\ Len(html) < MaxTags
    /\ \E metaTag \in DocTags :
         /\ html' = Append(html, metaTag)
         /\ scan' = ScanStep(scan, metaTag)
    /\ UNCHANGED << frame, pc, encVars, srvVars, codecVars >>

\* The document has no further meta element: the result is assembled.
Return ==
    /\ pc = "scan"
    /\ frame' = FrameOf(scan)
    /\ pc' = "done"
    /\ UNCHANGED << html, scan, encVars, srvVars, codecVars >>

Next == ScanTag \/ Return

Spec == Init /\ [][Next]_vars

(***************************************************************************)
(* SpecEncode: the frame route renders the intents of the handler, and the *)
(* preview route decodes the rendered page.                                *)
(***************************************************************************)
EncInit ==
    /\ DecIdle
    /\ SrvIdle
    /\ CodecIdle
    /\ intents = Undefined
    /\ page = << >>
    /\ preview = NoFrame
    /\ encPc = "start"

\* The frame route: the handler returns intents, the page is rendered.
RenderFrame ==
    /\ encPc = "start"
    /\ \E i \in IntentInputs :
         /\ intents' = i
         /\ page' = PageHead(i)
    /\ encPc' = "rendered"
    /\ UNCHANGED << preview, decVars, srvVars, codecVars >>

\* The preview route: htmlToFrame on the text of the rendered page.
Preview ==
    /\ encPc = "rendered"
    /\ preview' = htmlToFrame(page)
    /\ encPc' = "previewed"
    /\ UNCHANGED << intents, page, decVars, srvVars, codecVars >>

EncNext == RenderFrame \/ Preview

SpecEncode == EncInit /\ [][EncNext]_vars

(***************************************************************************)
(* SpecContext: a client and the two routes.  The client opens the frame,  *)
(* presses a button of the page it holds (a POST to the post URL), loads   *)
(* the image of that page, or sends a URL whose previousContext no render  *)
(* wrote.                                                                  *)
(***************************************************************************)
SrvInit ==
    /\ DecIdle
    /\ EncIdle
    /\ CodecIdle
    /\ shown = NoPage
    /\ lastReq = NoRequest
    /\ nreq = 0

\* The server has handled request req, which the client made by way of
\* `via`, and its route did r.
Handled(req, via, route, r) ==
    /\ nreq' = nreq + 1
    /\ lastReq' = IF r.threw
                  THEN [ route |-> route, via |-> via, threw |-> TRUE,
                         method |-> req.method, url |-> req.url ]
                  ELSE [ route |-> route, via |-> via, threw |-> FALSE,
                         method |-> req.method, url |-> req.url,
                         context |-> r.context, previousContext |-> r.previousContext ]
    /\ shown' = IF route = "frame" /\ ~r.threw
                THEN [ present         |-> TRUE,
                       method          |-> req.method,
                       context         |-> r.context,
                       previousContext |-> r.previousContext,
                       queryPrev       |-> r.queryPrev,
                       imageUrl        |-> r.imageUrl,
                       postUrl         |-> r.postUrl ]
                ELSE shown

\* The server handles request req.
Handle(req, via) ==
    \/ /\ RouteOf(req) = "frame"
       /\ \E r \in { FrameRoute(req) } : Handled(req, via, "frame", r)
    \/ /\ RouteOf(req) = "image"
       /\ \E r \in { ImageRoute(req) } : Handled(req, via, "image", r)

\* The client opens the frame: a GET of the frame URL without a query.
OpenFrame ==
    /\ nreq < MaxRequests
    /\ Handle(Request("GET", FrameUrl, << >>), "open")
    /\ UNCHANGED << decVars, encVars, codecVars >>

\* The client presses a button of the page it holds.
PressButton ==
    /\ nreq < MaxRequests
    /\ shown.present
    /\ \E body \in Bodies : Handle(Request("POST", shown.postUrl, body), "post_url")
    /\ UNCHANGED << decVars, encVars, codecVars >>

\* The client loads the image of the page it holds.
LoadImage ==
    /\ nreq < MaxRequests
    /\ shown.present
    /\ Handle(Request("GET", shown.imageUrl, << >>), "image")
    /\ UNCHANGED << decVars, encVars, codecVars >>

\* A request to the frame whose previousContext was written by no render.
ForeignRequest ==
    /\ nreq < MaxRequests
    /\ \E t \in ForeignTokens, method \in { "GET", "POST" } :
         Handle(Request(method, FrameUrl \o << "?", "previousContext", "=" >> \o t, << >>),
                "foreign")
    /\ UNCHANGED << decVars, encVars, codecVars >>

SrvNext == OpenFrame \/ PressButton \/ LoadImage \/ ForeignRequest

SpecContext == SrvInit /\ [][SrvNext]_vars

(***************************************************************************)
(* SpecCodec: serializeJson and deserializeJson applied to the objects of  *)
(* JsonObjects, and deserializeJson applied to undefined.                  *)
(***************************************************************************)
CodecInit ==
    /\ DecIdle
    /\ EncIdle
    /\ SrvIdle
    /\ jx = EmptyObject
    /\ jtoken = << >>
    /\ jback = NoResult
    /\ jpc = "start"

Serialize ==
    /\ jpc = "start"
    /\ \E x \in JsonObjects :
         /\ jx' = x
         /\ jtoken' = serializeJson(<< x >>)
    /\ jpc' = "serialized"
    /\ UNCHANGED << jback, decVars, encVars, srvVars >>

Deserialize ==
    /\ jpc = "serialized"
    /\ jback' = deserializeJson(<< jtoken >>)
    /\ jpc' = "deserialized"
    /\ UNCHANGED << jx, jtoken, decVars, encVars, srvVars >>

DeserializeUndefined ==
    /\ jpc = "start"
    /\ jback' = deserializeJson(<< >>)
    /\ jpc' = "default"
    /\ UNCHANGED << jx, jtoken, decVars, encVars, srvVars >>

CodecNext == Serialize \/ Deserialize \/ DeserializeUndefined

SpecCodec == CodecInit /\ [][CodecNext]_vars

(***************************************************************************)
(* What the scanned document says, read off the document itself.           *)
(***************************************************************************)
IsPlainButtonTag(t) == t.property # << >> /\ t.property \notin validPropertyNames
                       /\ Len(buttonRegex(t.property)) = 1

IsSuffixedButtonTag(t, suffix) ==
    /\ t.property # << >>
    /\ t.property \notin validPropertyNames
    /\ Len(buttonRegex(t.property)) = 2
    /\ buttonRegex(t.property)[2] = suffix

TagIndex(t) == ParseInt(buttonRegex(t.property)[1])

\* The indices of the plain button tags of a document, in document order.
RECURSIVE PlainIndices(_)
PlainIndices(tags) ==
    IF tags = << >> THEN << >>
    ELSE LET rest == PlainIndices(SubSeq(tags, 1, Len(tags) - 1))
         IN  IF IsPlainButtonTag(Last(tags)) THEN Append(rest, TagIndex(Last(tags))) ELSE rest

\* The content of the last plain button tag of index i in the document.
LastPlainContent(tags, i) ==
    LET at == { j \in 1..Len(tags) : IsPlainButtonTag(tags[j]) /\ TagIndex(tags[j]) = i }
        j  == CHOOSE k \in at : \A l \in at : l <= k
    IN  IF tags[j].content = << >> THEN "" ELSE tags[j].content[1]

Consecutive(s) == \A i \in 1..Len(s) : s[i] = i

ButtonTypes == { "post", "post_redirect", "link", "mint" }

(***************************************************************************)
(* C1: for every scanned document, the reported buttonsAreOutOfOrder is    *)
(* false and invalidButtons is empty exactly when the plain button tags    *)
(* carry the indices 1,2,...,k in this order; for the order [1,3] the      *)
(* missing flag is set and invalidButtons contains 3.                      *)
(***************************************************************************)
C1_OrderFlags ==
    pc = "done" =>
      LET idx == PlainIndices(html)
      IN  /\ ( (~frame.debug.buttonsAreOutOfOrder /\ frame.debug.invalidButtons = << >>)
               <=> (Consecutive(idx) /\ Len(idx) <= 4) )
          /\ ( idx = << 1, 3 >> =>
                 /\ scan.buttonsAreMissing
                 /\ 3 \in SeqRange(frame.debug.invalidButtons) )

C1_Witness ==
    /\ pc = "done"
    /\ PlainIndices(html) = << 1, 3 >>
    /\ frame.debug.buttonsAreOutOfOrder
    /\ frame.debug.invalidButtons = << 3 >>

(***************************************************************************)
(* C2, as stated: for the plain button order [2, 1] the result has         *)
(* buttonsAreOutOfOrder = true and invalidButtons = [1].                   *)
(***************************************************************************)
C2_Original ==
    (pc = "done" /\ PlainIndices(html) = << 2, 1 >>) =>
      /\ frame.debug.buttonsAreOutOfOrder
      /\ frame.debug.invalidButtons = << 1 >>

(***************************************************************************)
(* C2, amended: for the plain button order [2, 1] the result has           *)
(* buttonsAreOutOfOrder = true and invalidButtons = [2, 1]: the tag of     *)
(* button 2 raises the missing flag, and every later plain button tag is   *)
(* reported, the tag of button 1 included.                                 *)
(***************************************************************************)
C2_OutOfOrder ==
    (pc = "done" /\ PlainIndices(html) = << 2, 1 >>) =>
      /\ frame.debug.buttonsAreOutOfOrder
      /\ frame.debug.invalidButtons = << 2, 1 >>

C2_Witness ==
    /\ pc = "done"
    /\ PlainIndices(html) = << 2, 1 >>
    /\ 1 \in SeqRange(frame.debug.invalidButtons)

(***************************************************************************)
(* C3: the returned buttons are at most 4, their indices are in 1..4 and   *)
(* strictly ascending (so no index occurs twice), they are exactly the     *)
(* indices of the plain button tags of the document, and the title of each *)
(* is the content of the last plain button tag of its index.               *)
(***************************************************************************)
C3_Buttons ==
    pc = "done" =>
      LET b == frame.buttons
      IN  /\ Len(b) \in 0..4
          /\ \A i \in 1..Len(b) : b[i].index \in 1..4
          /\ \A i \in 1..Len(b) : \A j \in 1..Len(b) : i < j => b[i].index < b[j].index
          /\ { b[i].index : i \in 1..Len(b) } = SeqRange(PlainIndices(html))
          /\ \A i \in 1..Len(b) : b[i].title = LastPlainContent(html, b[i].index)

C3_Witness ==
    /\ pc = "done"
    /\ PlainIndices(html) = << 2, 1, 1 >>
    /\ Len(frame.buttons) = 2
    /\ frame.buttons[1] = [index |-> 1, title |-> "B", type |-> "post"]
    /\ frame.buttons[2].index = 2

(***************************************************************************)
(* C4, as stated: the type of every decoded button is one of post,         *)
(* post_redirect, link, mint, and it is post when the document has no      *)
(* fc:frame:button:<index>:action tag for the index of the button.         *)
(***************************************************************************)
C4_TypeDefault ==
    pc = "done" =>
      \A i \in 1..Len(frame.buttons) :
        LET b == frame.buttons[i]
        IN  /\ b.type \in ButtonTypes
            /\ ( (\A j \in 1..Len(html) :
                     ~(IsSuffixedButtonTag(html[j], "action") /\ TagIndex(html[j]) = b.index))
                 => b.type = "post" )

(***************************************************************************)
(* The button-tagged nodes of an intents value, in traversal order.        *)
(***************************************************************************)
RECURSIVE ButtonNodes(_)
ButtonNodes(x) ==
    LET RECURSIVE Each(_)
        Each(xs) == IF xs = << >> THEN << >> ELSE ButtonNodes(Head(xs)) \o Each(Tail(xs))
    IN  CASE Falsy(x) \/ x.tag = "#text" -> << >>
          [] x.tag = "#array"  -> Each(x.items)
          [] x.tag = "Button"  -> << x >>
          [] OTHER             -> Each(x.children)

\* The indices of the button meta elements of a page, in document order.
RECURSIVE ButtonIndicesOf(_)
ButtonIndicesOf(tags) ==
    IF tags = << >> THEN << >>
    ELSE LET rest == ButtonIndicesOf(SubSeq(tags, 1, Len(tags) - 1))
             p    == Last(tags).property
         IN  IF Len(p) = 4 /\ SubSeq(p, 1, 3) = << "fc", "frame", "button" >>
             THEN Append(rest, ParseInt(p[4])) ELSE rest

(***************************************************************************)
(* C5, as stated: the n button-tagged nodes of the intents receive the     *)
(* indices 1,2,...,n in traversal order, however the nodes are nested or   *)
(* grouped; text-input nodes and falsy nodes take no index.                *)
(***************************************************************************)
C5_TraversalIndices ==
    encPc = "rendered" =>
      /\ Len(ButtonIndicesOf(page)) = Len(ButtonNodes(intents))
      /\ Consecutive(ButtonIndicesOf(page))

(***************************************************************************)
(* C6: for an intent list of k button nodes, 1 <= k <= 4, decoding the     *)
(* rendered page yields the buttons 1..k in order, each of type post with  *)
(* its text as title, with buttonsAreOutOfOrder false and invalidButtons   *)
(* empty.                                                                  *)
(***************************************************************************)
IsButtonList(x) ==
    /\ x.tag = "#array"
    /\ \A i \in 1..Len(x.items) : x.items[i].tag = "Button"

C6_RoundTrip ==
    (encPc = "previewed" /\ IsButtonList(intents) /\ Len(intents.items) \in 1..4) =>
      /\ Len(preview.buttons) = Len(intents.items)
      /\ \A i \in 1..Len(intents.items) :
           preview.buttons[i] = [ index |-> i,
                                  title |-> intents.items[i].children[1].text,
                                  type  |-> "post" ]
      /\ ~preview.debug.buttonsAreOutOfOrder
      /\ preview.debug.invalidButtons = << >>

C6_Witness ==
    /\ encPc = "previewed"
    /\ IsButtonList(intents)
    /\ Len(intents.items) = 2
    /\ preview.buttons = << [index |-> 1, title |-> "B", type |-> "post"],
                            [index |-> 2, title |-> "A", type |-> "post"] >>

(***************************************************************************)
(* What a URL carries, read off its text without decoding.                 *)
(***************************************************************************)
\* The text after `key=` in the query of url, up to the next "&".
RawParam(url, key) ==
    LET params == Split(SubSeq(url, IndexOf(url, "?") + 1, Len(url)), "&")
        i      == CHOOSE j \in 1..Len(params) : params[j][1] = key /\ params[j][2] = "="
    IN  SubSeq(params[i], 3, Len(params[i]))

\* The status a request of the given method stands for.
StatusOfMethod(method) == JStr(<< IF method = "POST" THEN "response" ELSE "initial" >>)

\* An object as JSON shows it: without the members whose value is undefined.
DropUndefined(obj) == JObj(SelectSeq(obj[2], LAMBDA m : m[2] # JUndef))

\* The object that deserializeJson makes of a token.
TokenObject(token) == deserializeJson(<< token >>)

(***************************************************************************)
(* C7, as stated: deserializeJson never raises, so every request that      *)
(* reaches the frame route or the image route has its handler invoked      *)
(* (with previousContext = {} when the query value is malformed).          *)
(***************************************************************************)
C7_NeverThrows ==
    lastReq.route \in { "frame", "image" } => ~lastReq.threw

(***************************************************************************)
(* C8: deserializeJson(serializeJson(x)) = x for every object x of         *)
(* JsonObjects, and deserializeJson(undefined) is the empty object.        *)
(***************************************************************************)
C8_RoundTrip ==
    /\ jpc = "deserialized" => (~jback.threw /\ jback.value = jx)
    /\ jpc = "default" => (~jback.threw /\ jback.value = EmptyObject)

C8_Witness ==
    /\ jpc = "deserialized"
    /\ jx = JObj(<< << "url", JStr(<< "%", "25" >>) >>, << "k", JStr(<< "\"", "\\" >>) >> >>)
    /\ jback.value = jx
    /\ jtoken # stringify(jx)

(***************************************************************************)
(* C9, as stated: the token a render writes into its URLs carries no       *)
(* status, and the status a handler sees is the one of the HTTP method of  *)
(* its request.                                                            *)
(***************************************************************************)
C9_Original ==
    /\ shown.present =>
         /\ Get(TokenObject(RawParam(shown.postUrl, "previousContext")).value, "status") = JUndef
         /\ Get(TokenObject(RawParam(shown.imageUrl, "context")).value, "status") = JUndef
    /\ (lastReq.route \in { "frame", "image" } /\ ~lastReq.threw) =>
         Get(lastReq.context, "status") = StatusOfMethod(lastReq.method)

(***************************************************************************)
(* C9, amended: the token a render writes into its URLs carries the status *)
(* of that render, which is the one of the HTTP method of its request      *)
(* (POST gives response, otherwise initial).  In the frame route the       *)
(* status of the context the handler is called with is the one of the      *)
(* method of this request and is never read from a token; in the image     *)
(* route it is the status the token of the image URL carries.              *)
(***************************************************************************)
C9_Status ==
    /\ shown.present =>
         /\ Get(TokenObject(RawParam(shown.postUrl, "previousContext")).value, "status")
              = StatusOfMethod(shown.method)
         /\ Get(TokenObject(RawParam(shown.imageUrl, "context")).value, "status")
              = StatusOfMethod(shown.method)
    /\ (lastReq.route = "frame" /\ ~lastReq.threw) =>
         Get(lastReq.context, "status") = StatusOfMethod(lastReq.method)
    /\ (lastReq.route = "image" /\ lastReq.via = "image" /\ ~lastReq.threw) =>
         Get(lastReq.context, "status")
           = Get(TokenObject(RawParam(lastReq.url, "context")).value, "status")

C9_Witness ==
    /\ lastReq.route = "frame"
    /\ lastReq.via = "post_url"
    /\ ~lastReq.threw
    /\ Get(lastReq.previousContext, "status") = JStr(<< "initial" >>)
    /\ Get(lastReq.context, "status") = JStr(<< "response" >>)

(***************************************************************************)
(* C10, as stated: in every render the image URL and the post URL both     *)
(* carry, in their previousContext parameter, the serialization of the     *)
(* context computed in this render.                                        *)
(***************************************************************************)
C10_Original ==
    shown.present =>
      /\ RawParam(shown.postUrl, "previousContext") = serializeJson(<< shown.context >>)
      /\ RawParam(shown.imageUrl, "previousContext") = serializeJson(<< shown.context >>)

(***************************************************************************)
(* C10, amended: in every render the post URL carries, in its              *)
(* previousContext parameter, the serialization of the context computed in *)
(* this render, and the image URL carries that serialization in its        *)
(* context parameter; deserializeJson makes of it the context of this      *)
(* render (without its undefined members).  The previousContext parameter  *)
(* of the image URL is the previousContext query value of the request      *)
(* being rendered, written as the route received it (the text `undefined`  *)
(* when the request had none).                                             *)
(***************************************************************************)
C10_Propagation ==
    shown.present =>
      /\ RawParam(shown.postUrl, "previousContext") = serializeJson(<< shown.context >>)
      /\ RawParam(shown.imageUrl, "context") = serializeJson(<< shown.context >>)
      /\ TokenObject(RawParam(shown.postUrl, "previousContext"))
           = [threw |-> FALSE, value |-> DropUndefined(shown.context)]
      /\ RawParam(shown.imageUrl, "previousContext") = TemplateText(shown.queryPrev)

C10_Witness ==
    /\ shown.present
    /\ shown.method = "POST"
    /\ shown.queryPrev # << >>
    /\ Get(shown.previousContext, "status") = JStr(<< "initial" >>)
    /\ Get(shown.context, "untrustedData") # JUndef
    /\ RawParam(shown.imageUrl, "previousContext") = stringify(shown.previousContext)
    /\ RawParam(shown.postUrl, "previousContext") = serializeJson(<< shown.context >>)

(***************************************************************************)
(* What a document says about its image tags.                              *)
(***************************************************************************)
\* The positions of the meta tags of a document with the given property.
TagsWith(tags, property) == { j \in 1..Len(tags) : tags[j].property = property }

\* The content attribute of a tag as text: '' when the attribute is absent.
ContentText(t) == IF t.content = << >> THEN "" ELSE t.content[1]

\* The last tag of a document with the given property (there is one).
LastTagWith(tags, property) ==
    tags[CHOOSE k \in TagsWith(tags, property) : \A l \in TagsWith(tags, property) : l <= k]

(***************************************************************************)
(* C11, as stated: debug.fallbackImageToUrl of the result is true exactly  *)
(* when the document has no meta tag with property fc:frame:image; a tag   *)
(* that is present makes it false whatever its content, the empty content  *)
(* included, and an og:image tag makes no difference.                      *)
(***************************************************************************)
C11_Original ==
    pc = "done" =>
      ( frame.debug.fallbackImageToUrl
          <=> TagsWith(html, << "fc", "frame", "image" >>) = {} )

(***************************************************************************)
(* C11, amended: debug.fallbackImageToUrl of the result is true exactly    *)
(* when the image URL of the result is empty, that is when the document    *)
(* has no meta tag with property fc:frame:image or the last such tag has   *)
(* an empty or absent content; a tag with non-empty content that is the    *)
(* last one makes it false, and an og:image tag makes no difference.       *)
(***************************************************************************)
C11_Fallback ==
    pc = "done" =>
      /\ ( frame.debug.fallbackImageToUrl
             <=> \/ TagsWith(html, << "fc", "frame", "image" >>) = {}
                 \/ ContentText(LastTagWith(html, << "fc", "frame", "image" >>)) = "" )
      /\ ( frame.debug.fallbackImageToUrl <=> frame.imageUrl = "" )

C11_Witness ==
    /\ pc = "done"
    /\ TagsWith(html, << "fc", "frame", "image" >>) # {}
    /\ TagsWith(html, << "og", "image" >>) # {}
    /\ ContentText(LastTagWith(html, << "fc", "frame", "image" >>)) = ""
    /\ frame.debug.fallbackImageToUrl
    /\ frame.debug.image = "img"

(***************************************************************************)
(* One iteration of the scan on a plain button tag: the step appends the   *)
(* tag to html, and the index of the tag is reported when invalidButtons   *)
(* grows.                                                                  *)
(***************************************************************************)
PlainButtonStep == Len(html') = Len(html) + 1 /\ IsPlainButtonTag(Last(html'))

Reported == Len(scan'.invalidButtons) = Len(scan.invalidButtons) + 1

(***************************************************************************)
(* C12, as stated: in every iteration of the scan on a plain button tag,   *)
(* the index is appended to invalidButtons only if this very tag sets a    *)
(* flag (index <= currentButtonIndex, or index # currentButtonIndex + 1);  *)
(* a tag whose index is exactly currentButtonIndex + 1 is never appended,  *)
(* also when an earlier tag has set a flag.                                *)
(***************************************************************************)
C12_Original ==
    [][ PlainButtonStep =>
          LET index == TagIndex(Last(html'))
          IN  /\ Reported => \/ index <= scan.currentButtonIndex
                              \/ index # scan.currentButtonIndex + 1
              /\ index = scan.currentButtonIndex + 1 => ~Reported ]_vars

(***************************************************************************)
(* C12, amended: in every iteration of the scan on a plain button tag, the *)
(* index is appended to invalidButtons exactly when a flag is set after    *)
(* the update for this tag: set by this very tag (index <=                 *)
(* currentButtonIndex, or index # currentButtonIndex + 1) or by an earlier *)
(* tag, since the flags are never cleared.  A tag whose index is exactly   *)
(* currentButtonIndex + 1 is appended exactly when an earlier tag has set  *)
(* a flag; so invalidButtons is the plain indices from the first tag that  *)
(* is out of the sequence 1,2,... on (for the order [1,3,2] it is [3,2]).  *)
(***************************************************************************)
C12_Reported ==
    [][ PlainButtonStep =>
          LET index == TagIndex(Last(html'))
              idx   == PlainIndices(html')
              first == { k \in 1..Len(idx) : idx[k] # k }
          IN  /\ Reported <=> \/ scan.buttonsAreOutOfOrder
                               \/ scan.buttonsAreMissing
                               \/ index <= scan.currentButtonIndex
                               \/ index # scan.currentButtonIndex + 1
              /\ Reported => Last(scan'.invalidButtons) = index
              /\ ~Reported => scan'.invalidButtons = scan.invalidButtons
              /\ (scan.buttonsAreOutOfOrder => scan'.buttonsAreOutOfOrder)
              /\ (scan.buttonsAreMissing => scan'.buttonsAreMissing)
              /\ scan'.invalidButtons =
                    IF first = {} THEN << >>
                    ELSE SubSeq(idx, CHOOSE k \in first : \A l \in first : k <= l, Len(idx)) ]_vars

C12_Witness ==
    /\ PlainIndices(html) = << 1, 3, 2 >>
    /\ scan.currentButtonIndex = 2
    /\ scan.buttonsAreMissing
    /\ ~scan.buttonsAreOutOfOrder
    /\ scan.invalidButtons = << 3, 2 >>

====
